---- MODULE Spec2Model ----
(***************************************************************************)
(* Basis Point Set encoder/decoder (bps_torch/bps.py).                     *)
(*                                                                         *)
(* A tensor is a record [shape, data]: shape is the tuple torch reports    *)
(* and data the nested tuples of that shape.  Indices stored in tensors    *)
(* are 0-based as in the code; tuples are 1-based, so a stored index i     *)
(* addresses element i + 1.  Coordinates are small integers, on which the  *)
(* float32 subtraction and addition of the code are exact.                 *)
(***************************************************************************)
EXTENDS Integers, Sequences, FiniteSets, TLC

\* Bounds of the model.
MaxN == 2
MaxPx == 2
MaxP == 2

\* The constructor's n_dims argument: the object is built for 1-D points.
n_dims == 1
\* Widths F of the side-channel array: up to one more than the point dimension.
MaxF == n_dims + 1
\* Coordinates of the input points and of the basis points.
Coords == {0, 1}
BasisCoords == {-1, 1}
DeltaVals == {-1, 1}
FeatureNames == {"dists", "deltas", "closest", "features", "normals"}
MeshIds == {1, 2}

(***************************************************************************)
(* Tensors                                                                 *)
(***************************************************************************)
\* Python's None; it has no dimensions.
None == [shape |-> <<>>, data |-> <<>>, none |-> TRUE]

Tensor(shape, data) == [shape |-> shape, data |-> data]

ndim(t) == Len(t.shape)

unsqueeze(t) == Tensor(<<1>> \o t.shape, <<t.data>>)

\* An array given without a batch dimension gets one of size 1.
Promoted(x) == IF ndim(x) > 2 THEN x ELSE unsqueeze(x)

\* t[i : i + 1] on the batch dimension, i 0-based.
Slice(t, i) == Tensor(<<1>> \o Tail(t.shape), <<t.data[i + 1]>>)

zeros3(N, P, D) == Tensor(<<N, P, D>>, [n \in 1..N |-> [p \in 1..P |-> [d \in 1..D |-> 0]]])

zeros2(N, P) == Tensor(<<N, P>>, [n \in 1..N |-> [p \in 1..P |-> 0]])

\* A raised exception: its Python class and what it reports.
Raise(exc, msg) == [kind |-> "error", exc |-> exc, msg |-> msg]

IsError(r) == r.kind = "error"

NoXFeatures == Raise("ValueError", "No x_features parameter is provided!")

InvalidCellType == Raise("ValueError", "Invalid cell type")

InvalidInput == Raise("ValueError", "Invalid input")

UnpackError == Raise("ValueError", "not enough values to unpack")

ShapeError == Raise("RuntimeError", "shape mismatch")

OracleFailure == Raise("OracleFailure", "nearest-neighbor oracle failed")

\* The errors the code raises on purpose to reject a call's configuration.
ConfigurationErrors == {NoXFeatures, InvalidCellType, InvalidInput}

\* self.bps if custom_basis is None else custom_basis
ResolveBasisInverted(self_bps, custom_basis) ==
    IF custom_basis # None THEN self_bps ELSE custom_basis

ResolveBasis(self_bps, custom_basis) ==
    IF custom_basis = None THEN self_bps ELSE custom_basis

(***************************************************************************)
(* __init__ with a custom basis                                            *)
(***************************************************************************)
\* basis_set.reshape(1, -1, n_dims) of a [P, D] array with D = n_dims.
init(custom_basis) == Tensor(<<1, custom_basis.shape[1], n_dims>>, <<custom_basis.data>>)

(***************************************************************************)
(* The nearest-neighbour oracle                                            *)
(***************************************************************************)
RECURSIVE SqDistFrom(_, _, _)
SqDistFrom(a, b, d) ==
    IF d > Len(a) THEN 0
    ELSE (a[d] - b[d]) * (a[d] - b[d]) + SqDistFrom(a, b, d + 1)

SqDist(a, b) == SqDistFrom(a, b, 1)

\* The first of the points nearest to y, 1-based.
Nearest(y, pts) ==
    CHOOSE i \in 1..Len(pts) :
        \A j \in 1..Len(pts) :
            \/ SqDist(y, pts[i]) < SqDist(y, pts[j])
            \/ SqDist(y, pts[i]) = SqDist(y, pts[j]) /\ i <= j

\* b2x_idx of ch_dist(Y, X) for Y of shape [1, P, D] and X of shape [1, Px, D]:
\* for every point of Y the 0-based index of its nearest point of X.
ch_dist(Y, X) ==
    [p \in 1..Y.shape[2] |-> Nearest(Y.data[1][p], X.data[1]) - 1]

\* What the oracle can do with Y and X: with batches of different sizes its
\* result is not defined, and it either fails or hands back indices of Y's shape.
OracleOutcomes(Y, X) ==
    IF ndim(Y) = 3 /\ Y.shape[1] # 1 /\ Y.shape[1] # X.shape[1]
    THEN {"returns", "raises"} ELSE {"returns"}

(***************************************************************************)
(* enc_points                                                              *)
(***************************************************************************)
\* Y of one iteration: the sample's own basis when the basis is per-sample.
SelectY(bps, N, fid) == IF bps.shape[1] = N THEN Slice(bps, fid) ELSE bps

\* X of one iteration.
SelectXFirst(x, fid) == Slice(x, 0)

SelectX(x, fid) == Slice(x, fid)

\* One row of X[:, b2x_idx] - Y.
DeltaSwapped(xp, yp) == [d \in 1..Len(xp) |-> yp[d] - xp[d]]

Delta(xp, yp) == [d \in 1..Len(xp) |-> xp[d] - yp[d]]

\* The loop over the batch from iteration fid on: the filled arrays, or the
\* exception that ends the call.
RECURSIVE enc_loop(_, _, _, _, _, _)
enc_loop(x, bps, fid, deltas, b2x_idxs, oracle) ==
    IF fid = x.shape[1] THEN [kind |-> "ok", deltas |-> deltas, b2x_idxs |-> b2x_idxs]
    ELSE LET Y == SelectY(bps, x.shape[1], fid)
             X == SelectX(x, fid)
         IN  IF Y.shape[1] # 1
             THEN \* b2x_idx is [Nb, P]: the difference is [1, Nb, P, D] and
                  \* does not fit deltas[fid].
                  IF oracle = "raises" THEN OracleFailure ELSE ShapeError
             ELSE LET b2x_idx == ch_dist(Y, X)
                      row == [p \in 1..Y.shape[2] |->
                                 Delta(X.data[1][b2x_idx[p] + 1], Y.data[1][p])]
                  IN  enc_loop(x, bps, fid + 1,
                               [deltas EXCEPT !.data[fid + 1] = row],
                               [b2x_idxs EXCEPT !.data[fid + 1] = b2x_idx],
                               oracle)

\* torch.sqrt of a sum of squares, kept exact.
sqrt(v) == [sqrt |-> v]

\* torch.sqrt(torch.pow(deltas, 2).sum(2))
Dists(deltas) ==
    Tensor(<<deltas.shape[1], deltas.shape[2]>>,
           [n \in 1..deltas.shape[1] |-> [p \in 1..deltas.shape[2] |->
               sqrt(SqDist(deltas.data[n][p], [d \in 1..deltas.shape[3] |-> 0]))]])

\* b2x_idxs.view(N, P_bps, 1).expand(N, P_bps, K)
Expanded(b2x_idxs, K) ==
    Tensor(<<b2x_idxs.shape[1], b2x_idxs.shape[2], K>>,
           [n \in 1..b2x_idxs.shape[1] |-> [p \in 1..b2x_idxs.shape[2] |->
               [k \in 1..K |-> b2x_idxs.data[n][p]]]])

\* torch.gather(t, 1, index) is defined when index is no larger than t on the
\* dimensions other than 1.
GatherFits(t, index) ==
    /\ index.shape[1] <= t.shape[1]
    /\ index.shape[3] <= t.shape[3]

gather(t, index) ==
    Tensor(index.shape,
           [n \in 1..index.shape[1] |-> [p \in 1..index.shape[2] |->
               [k \in 1..index.shape[3] |-> t.data[n][index.data[n][p][k] + 1][k]]]])

EmptyDict == [k \in {} |-> 0]

\* The "features" branch: the entry, or the exception of the except clause.
FeaturesEntry(x, b2x_idxs, x_features) ==
    IF x_features = None \/ ndim(x_features) < 3 THEN NoXFeatures
    ELSE LET b2x_idxs_expanded == Expanded(b2x_idxs, x_features.shape[3])
         IN  IF ~GatherFits(x, b2x_idxs_expanded) THEN NoXFeatures
             ELSE [kind |-> "ok", value |-> gather(x, b2x_idxs_expanded)]

\* x_bps["ids"] = b2x_idxs
AddIdsMissing(x_bps, b2x_idxs) == x_bps

AddIds(x_bps, b2x_idxs) == x_bps @@ ("ids" :> b2x_idxs)

Bundle(x_bps) == [kind |-> "bundle", bundle |-> x_bps]

\* The feature channels derived after the loop.
Features(x, deltas, b2x_idxs, feature_type, x_features) ==
    LET D == x.shape[3]
        d1 == IF "dists" \in feature_type THEN ("dists" :> Dists(deltas)) ELSE EmptyDict
        d2 == IF "deltas" \in feature_type THEN d1 @@ ("deltas" :> deltas) ELSE d1
        d3 == IF "closest" \in feature_type
              THEN d2 @@ ("closest" :> gather(x, Expanded(b2x_idxs, D)))
                      @@ ("closest_ids" :> Expanded(b2x_idxs, D))
              ELSE d2
        f  == FeaturesEntry(x, b2x_idxs, x_features)
    IN  IF "features" \in feature_type /\ IsError(f) THEN f
        ELSE LET d4 == IF "features" \in feature_type THEN d3 @@ ("features" :> f.value) ELSE d3
             IN  IF Cardinality(DOMAIN d4) < 1 THEN InvalidCellType
                 ELSE Bundle(AddIds(d4, b2x_idxs))

enc_points(self_bps, x_in, feature_type, x_features, custom_basis, oracle) ==
    LET x == Promoted(x_in)
        bps == ResolveBasis(self_bps, custom_basis)
    IN  IF ndim(bps) # 3 THEN UnpackError
        ELSE LET N == x.shape[1]
                 P_bps == bps.shape[2]
                 D == x.shape[3]
                 l == enc_loop(x, bps, 0, zeros3(N, P_bps, D), zeros2(N, P_bps), oracle)
             IN  IF IsError(l) THEN l
                 ELSE Features(x, l.deltas, l.b2x_idxs, feature_type, x_features)

(***************************************************************************)
(* enc_mesh                                                                *)
(***************************************************************************)
scale == 1000

\* bps * scale
Scaled(bps) ==
    Tensor(bps.shape,
           [n \in 1..bps.shape[1] |-> [p \in 1..bps.shape[2] |->
               [d \in 1..bps.shape[3] |-> bps.data[n][p][d] * scale]]])

\* t.repeat(N, 1, 1) of a tensor with batch size 1.
Repeat(t, N) ==
    Tensor(<<N, t.shape[2], t.shape[3]>>, [n \in 1..N |-> t.data[1]])

\* Distance of a point to the surface of a mesh; the mesh with identifier m
\* is taken to be the surface at coordinate m * scale.
SurfaceDist(m, pt) ==
    IF pt[1] >= m * scale THEN pt[1] - m * scale ELSE m * scale - pt[1]

\* point2surface(x, bps_pc): one distance per mesh and query point, flat.
point2surface(x, bps_pc) ==
    [i \in 1..(Len(x.meshes) * bps_pc.shape[2]) |->
        LET n == ((i - 1) \div bps_pc.shape[2]) + 1
            p == ((i - 1) % bps_pc.shape[2]) + 1
        IN  SurfaceDist(x.meshes[n], bps_pc.data[n][p])]

\* flat.reshape(N, -1)
Reshape2(flat, N) ==
    LET P == Len(flat) \div N
    IN  Tensor(<<N, P>>, [n \in 1..N |-> [p \in 1..P |-> flat[(n - 1) * P + p]]])

\* The test that guards the print of "currently only supports dists!".
Warns(feature_type) == "dists" \notin feature_type

enc_mesh(self_bps, x, feature_type, custom_basis) ==
    LET bps == ResolveBasis(self_bps, custom_basis)
        N == Len(x.meshes)
        bps_pc == Repeat(Scaled(bps), N)
        b2o == point2surface(x, bps_pc)
    IN  [kind |-> "bundle",
         bundle |-> ("dists" :> Reshape2(b2o, N)),
         printed |-> IF Warns(feature_type)
                     THEN <<"bps_torch currently only supports dists!">> ELSE <<>>]

(***************************************************************************)
(* decode                                                                  *)
(***************************************************************************)
\* The test that promotes a basis given without a batch dimension.
NeedsBatchDim(bps) == ndim(bps) < 2

\* bps.expand(N, P_bps, D) is defined for a batch size of 1 or N.
expand(bps, N) ==
    Tensor(<<N, bps.shape[2], bps.shape[3]>>,
           [n \in 1..N |-> IF bps.shape[1] = 1 THEN bps.data[1] ELSE bps.data[n]])

\* One element of bps_expanded + x.
Add(b, v) == [d \in 1..Len(b) |-> b[d] + v[d]]

\* bps_expanded + x with torch's broadcasting on the point dimension.
BroadcastAdd(b, x) ==
    LET P == IF b.shape[2] >= x.shape[2] THEN b.shape[2] ELSE x.shape[2]
    IN  Tensor(<<x.shape[1], P, x.shape[3]>>,
               [n \in 1..x.shape[1] |-> [p \in 1..P |->
                   Add(b.data[n][IF b.shape[2] = 1 THEN 1 ELSE p],
                       x.data[n][IF x.shape[2] = 1 THEN 1 ELSE p])]])

decode(self_bps, x_deltas, custom_basis) ==
    LET x == Promoted(x_deltas)
        bps0_ == ResolveBasis(self_bps, custom_basis)
        bps == IF NeedsBatchDim(bps0_) THEN unsqueeze(bps0_) ELSE bps0_
    IN  IF ndim(bps) # 3 THEN UnpackError
        ELSE IF bps.shape[1] \notin {1, x.shape[1]} THEN ShapeError
        ELSE IF bps.shape[2] # x.shape[2] /\ bps.shape[2] # 1 /\ x.shape[2] # 1 THEN ShapeError
        ELSE [kind |-> "tensor", value |-> BroadcastAdd(expand(bps, x.shape[1]), x)]

(***************************************************************************)
(* encode                                                                  *)
(***************************************************************************)
Meshes(ms) == [kind |-> "meshes", meshes |-> ms]

is_tensor(x) == "shape" \in DOMAIN x

is_meshes(x) == "meshes" \in DOMAIN x

encode(self_bps, x, feature_type, x_features, custom_basis, oracle) ==
    IF is_tensor(x) THEN enc_points(self_bps, x, feature_type, x_features, custom_basis, oracle)
    ELSE IF is_meshes(x) THEN enc_mesh(self_bps, x, feature_type, custom_basis)
    ELSE InvalidInput

(***************************************************************************)
(* Inputs of the calls                                                     *)
(***************************************************************************)
Tensors3(Ns, Ps, Vals) ==
    UNION { { Tensor(<<N, P, n_dims>>, d) : d \in [1..N -> [1..P -> [1..n_dims -> Vals]]] } :
            N \in Ns, P \in Ps }

Tensors2(Ps, Vals) ==
    UNION { { Tensor(<<P, n_dims>>, d) : d \in [1..P -> [1..n_dims -> Vals]] } : P \in Ps }

\* A batch of N clouds of MaxPx points each, no two neighbouring items alike.
ProbeBatch(N) ==
    Tensor(<<N, MaxPx, n_dims>>,
           [n \in 1..N |-> [p \in 1..MaxPx |-> [d \in 1..n_dims |-> (n + p) % 2]]])

ProbeBatches == { ProbeBatch(N) : N \in 1..MaxN }

\* Offsets for MaxP basis points.
ProbeDeltas(N) ==
    Tensor(<<N, MaxP, n_dims>>,
           [n \in 1..N |-> [p \in 1..MaxP |-> [d \in 1..n_dims |-> IF (n + p) % 2 = 0 THEN 1 ELSE -1]]])

\* A side-channel array aligned with x, every entry different.
FeatArr(x, F) ==
    Tensor(<<x.shape[1], x.shape[2], F>>,
           [n \in 1..x.shape[1] |-> [p \in 1..x.shape[2] |-> [f \in 1..F |-> 100 * n + 10 * p + f]]])

XFeatures(x) == {None} \cup { FeatArr(x, F) : F \in 1..MaxF }

PointClouds == Tensors3(1..MaxN, 1..MaxPx, Coords) \cup Tensors2(1..MaxPx, Coords)

\* A basis of batch size Nb whose even samples mirror the odd ones.
Stacked(b, Nb) ==
    Tensor(<<Nb>> \o b.shape,
           [n \in 1..Nb |-> [p \in 1..b.shape[1] |-> [d \in 1..b.shape[2] |->
               IF n % 2 = 1 THEN b.data[p][d] ELSE 0 - b.data[p][d]]]])

\* Basis overrides: with a batch dimension of 1..MaxN, and without one.
CustomBases ==
    { Stacked(b, Nb) : b \in Tensors2(1..MaxP, BasisCoords), Nb \in 1..MaxN }
    \cup Tensors2(1..MaxP, BasisCoords)

EncArgs(x, ft, xf, cb) == [x |-> x, feature_type |-> ft, x_features |-> xf, custom_basis |-> cb]

\* The arguments enc_points is called with: every cloud with two selections of
\* features, every selection of features and side-channel array on the probe
\* batches, and every basis override on the probe batches.
EncPointsInputs ==
    { EncArgs(x, ft, None, None) : x \in PointClouds, ft \in {{"deltas"}, {"dists", "closest"}} }
    \cup UNION { { EncArgs(x, ft, xf, None) : ft \in SUBSET FeatureNames, xf \in XFeatures(x) } :
                 x \in ProbeBatches }
    \cup { EncArgs(x, ft, None, cb) :
           x \in ProbeBatches, ft \in {{"deltas"}, {"features"}}, cb \in CustomBases }

MeshBatches == UNION { { Meshes(ms) : ms \in [1..N -> MeshIds] } : N \in 1..MaxN }

EncMeshInputs ==
    { EncArgs(x, ft, None, None) : x \in MeshBatches, ft \in SUBSET FeatureNames }
    \cup { EncArgs(x, {"dists"}, None, cb) :
           x \in MeshBatches, cb \in Tensors3({1}, 1..MaxP, BasisCoords) }

\* Something that is neither a tensor nor a batch of meshes.
OtherInputs == { EncArgs([list |-> <<c>>], {"dists"}, None, None) : c \in Coords }

DecArgs(xd, cb) == [x |-> xd, custom_basis |-> cb]

DecodeInputs ==
    { DecArgs(xd, None) :
      xd \in Tensors3(1..MaxN, 1..MaxP, DeltaVals) \cup Tensors2(1..MaxP, DeltaVals) }
    \cup { DecArgs(ProbeDeltas(N), cb) : N \in 1..MaxN, cb \in CustomBases }

(***************************************************************************)
(* The object and its calls                                                *)
(***************************************************************************)
VARIABLES
    bps,         \* self.bps
    bps_built,   \* what __init__ stored
    call,        \* the arguments of the call that has returned, if any
    ret          \* what that call returned or raised

vars == <<bps, bps_built, call, ret>>

NoCall == [op |-> "none"]

NoRet == [kind |-> "none"]

Init ==
    /\ \E custom_basis \in Tensors2(1..MaxP, BasisCoords) :
           /\ bps = init(custom_basis)
           /\ bps_built = init(custom_basis)
    /\ call = NoCall
    /\ ret = NoRet

\* The record of an encode call; src is the encode call a decode call inverts.
Called(op, a, basis) ==
    [op |-> op, x |-> a.x, feature_type |-> a.feature_type, x_features |-> a.x_features,
     custom_basis |-> a.custom_basis, basis |-> basis]

EncPoints ==
    /\ call = NoCall
    /\ \E a \in EncPointsInputs :
       \E oracle \in OracleOutcomes(ResolveBasis(bps, a.custom_basis), Promoted(a.x)) :
           /\ ret' = enc_points(bps, a.x, a.feature_type, a.x_features, a.custom_basis, oracle)
           /\ call' = Called("enc_points", a, ResolveBasis(bps, a.custom_basis))
    /\ UNCHANGED <<bps, bps_built>>

EncMesh ==
    /\ call = NoCall
    /\ \E a \in EncMeshInputs :
           /\ ret' = enc_mesh(bps, a.x, a.feature_type, a.custom_basis)
           /\ call' = Called("enc_mesh", a, ResolveBasis(bps, a.custom_basis))
    /\ UNCHANGED <<bps, bps_built>>

\* encode: the dispatch on the type of x.
Encode ==
    /\ call = NoCall
    /\ \E a \in EncPointsInputs \cup EncMeshInputs \cup OtherInputs :
       \E oracle \in IF is_tensor(a.x)
                      THEN OracleOutcomes(ResolveBasis(bps, a.custom_basis), Promoted(a.x))
                      ELSE {"returns"} :
           /\ ret' = encode(bps, a.x, a.feature_type, a.x_features, a.custom_basis, oracle)
           /\ call' = Called(IF is_tensor(a.x) THEN "enc_points"
                             ELSE IF is_meshes(a.x) THEN "enc_mesh" ELSE "encode",
                             a, ResolveBasis(bps, a.custom_basis))
    /\ UNCHANGED <<bps, bps_built>>

HasDeltas == ret.kind = "bundle" /\ "deltas" \in DOMAIN ret.bundle

\* decode, either of offsets of the caller's own or of the "deltas" the last
\* enc_points call returned, with the basis override of that call or with none.
Decode ==
    /\ \/ /\ call = NoCall
          /\ \E a \in DecodeInputs :
                 /\ ret' = decode(bps, a.x, a.custom_basis)
                 /\ call' = [op |-> "decode", x |-> a.x, custom_basis |-> a.custom_basis,
                             basis |-> ResolveBasis(bps, a.custom_basis), src |-> NoCall]
       \/ /\ call.op = "enc_points"
          /\ HasDeltas
          /\ \E custom_basis \in {call.custom_basis, None} :
                 /\ ret' = decode(bps, ret.bundle["deltas"], custom_basis)
                 /\ call' = [op |-> "decode", x |-> ret.bundle["deltas"],
                             custom_basis |-> custom_basis,
                             basis |-> ResolveBasis(bps, custom_basis),
                             src |-> [op |-> "enc_points", x |-> call.x,
                                      custom_basis |-> call.custom_basis,
                                      ids |-> ret.bundle["ids"]]]
    /\ UNCHANGED <<bps, bps_built>>

\* The caller drops the result.
Release ==
    /\ call # NoCall
    /\ call' = NoCall
    /\ ret' = NoRet
    /\ UNCHANGED <<bps, bps_built>>

Next == EncPoints \/ EncMesh \/ Encode \/ Decode \/ Release

Spec == Init /\ [][Next]_vars

(***************************************************************************)
(* Properties                                                              *)
(***************************************************************************)
Recognized == {"dists", "deltas", "closest", "features"}

BundleKeys == {"dists", "deltas", "closest", "closest_ids", "features"}

\* An enc_points call whose resolved basis has a batch dimension of 1 or N.
ValidBasisCall ==
    /\ call.op = "enc_points"
    /\ ndim(call.basis) = 3
    /\ call.basis.shape[1] \in {1, Promoted(call.x).shape[1]}

\* A decode call of the "deltas" of an enc_points call, with the basis of that call.
RoundTripCall ==
    /\ call.op = "decode"
    /\ call.src # NoCall
    /\ call.custom_basis = call.src.custom_basis

\* C1: decoding the "deltas" of an enc_points call with the basis of that call
\* gives, for every batch item n and basis point p, the input point x[n, ids[n, p]].
C1_RoundTrip ==
    RoundTripCall =>
        /\ ret.kind = "tensor"
        /\ ret.value.shape = call.x.shape
        /\ \A n \in 1..call.x.shape[1], p \in 1..call.x.shape[2] :
               ret.value.data[n][p] =
                   Promoted(call.src.x).data[n][call.src.ids.data[n][p] + 1]

\* A round trip of a batch in which some basis point is matched to a point
\* other than the first and lies away from it.
C1_Witness ==
    /\ RoundTripCall
    /\ call.x.shape[1] >= 2
    /\ \E n \in 1..call.x.shape[1], p \in 1..call.x.shape[2] :
           /\ call.src.ids.data[n][p] > 0
           /\ call.x.data[n][p] # [d \in 1..n_dims |-> 0]

\* C2 as stated: every bundle holds "ids", and every other key is present
\* exactly when its name was requested.
C2_Original ==
    (call.op \in {"enc_points", "enc_mesh"} /\ ret.kind = "bundle") =>
        /\ "ids" \in DOMAIN ret.bundle
        /\ \A k \in BundleKeys : k \in DOMAIN ret.bundle <=> k \in call.feature_type

\* C2, amended: a bundle of enc_points holds "ids", each of "dists", "deltas",
\* "closest" and "features" exactly when it was requested, and "closest_ids"
\* exactly when "closest" was requested; a bundle of enc_mesh holds "dists" and
\* nothing else, whatever was requested.
C2_BundleKeys ==
    /\ (call.op = "enc_points" /\ ret.kind = "bundle") =>
           /\ "ids" \in DOMAIN ret.bundle
           /\ DOMAIN ret.bundle \subseteq BundleKeys \cup {"ids"}
           /\ \A k \in Recognized : k \in DOMAIN ret.bundle <=> k \in call.feature_type
           /\ "closest_ids" \in DOMAIN ret.bundle <=> "closest" \in call.feature_type
    /\ (call.op = "enc_mesh" /\ ret.kind = "bundle") => DOMAIN ret.bundle = {"dists"}

\* A bundle of enc_points for a request that names "closest", an unrecognized
\* name and not "dists".
C2_Witness ==
    /\ call.op = "enc_points"
    /\ ret.kind = "bundle"
    /\ {"closest", "normals"} \subseteq call.feature_type
    /\ "dists" \notin call.feature_type

\* C3 as stated: with "features" requested and x_features of shape [N, P_x, F]
\* supplied, the "features" entry has shape [N, P_basis, F] and holds
\* x_features[n, ids[n, p], :].
C3_Claim ==
    (ValidBasisCall /\ "features" \in call.feature_type /\ call.x_features # None) =>
        /\ ret.kind = "bundle"
        /\ ret.bundle["features"].shape =
               <<call.x_features.shape[1], call.basis.shape[2], call.x_features.shape[3]>>
        /\ \A n \in 1..call.x_features.shape[1], p \in 1..call.basis.shape[2] :
               ret.bundle["features"].data[n][p] =
                   call.x_features.data[n][ret.bundle["ids"].data[n][p] + 1]

\* C4 as stated: the "no x_features" error is raised exactly when "features" is
\* requested without x_features, and never when x_features was supplied.
C4_Claim ==
    /\ (call.op = "enc_points" /\ ret = NoXFeatures) => call.x_features = None
    /\ (ValidBasisCall /\ "features" \in call.feature_type /\ call.x_features = None) =>
           ret = NoXFeatures

\* C5 as stated: a resolved basis whose batch dimension is neither N nor 1
\* makes enc_points fail with a configuration error.
C5_Claim ==
    (call.op = "enc_points" /\ ndim(call.basis) = 3 /\ ~ValidBasisCall) =>
        ret \in ConfigurationErrors

\* C6 as stated: enc_points rejects the request as naming no recognized feature
\* exactly when it names none, and returns a bundle whenever a recognized
\* feature is requested and its inputs are supplied.
C6_Claim ==
    ValidBasisCall =>
        /\ ret = InvalidCellType <=> call.feature_type \cap Recognized = {}
        /\ ( /\ call.feature_type \cap Recognized # {}
             /\ "features" \in call.feature_type => call.x_features # None )
           => ret.kind = "bundle"

\* C7: the stored basis is the one the constructor set, whatever calls were
\* made, and a call without custom_basis works on that stored basis.
C7_BasisFrozen ==
    /\ bps = bps_built
    /\ (call # NoCall /\ call.custom_basis = None) => call.basis = bps_built

\* A decode call without custom_basis right after an enc_points call that was
\* given an override different from the stored basis.
C7_Witness ==
    /\ call.op = "decode"
    /\ call.src # NoCall
    /\ call.src.custom_basis # None
    /\ call.src.custom_basis # bps
    /\ call.custom_basis = None
    /\ ret.kind = "tensor"

\* Item i (1-based) of the batch encoded alone, as a batch of size 1.
Alone(i) ==
    enc_points(bps, Slice(Promoted(call.x), i - 1), call.feature_type,
               IF call.x_features = None THEN None ELSE Slice(call.x_features, i - 1),
               call.custom_basis, "returns")

\* C8: against a basis shared by the batch, what enc_points returns for item i
\* of a batch is what it returns for item i encoded alone: the same keys with
\* the same values, or the same error.
C8_BatchIndependence ==
    (ValidBasisCall /\ call.basis.shape[1] = 1) =>
        \A i \in 1..Promoted(call.x).shape[1] :
            IF IsError(ret) THEN Alone(i) = ret
            ELSE /\ Alone(i).kind = "bundle"
                 /\ DOMAIN Alone(i).bundle = DOMAIN ret.bundle
                 /\ \A k \in DOMAIN ret.bundle :
                        Alone(i).bundle[k].data[1] = ret.bundle[k].data[i]

\* A bundle with "deltas" and "closest" for a batch whose first two items differ.
C8_Witness ==
    /\ ValidBasisCall
    /\ call.basis.shape[1] = 1
    /\ ret.kind = "bundle"
    /\ {"deltas", "closest"} \subseteq DOMAIN ret.bundle
    /\ call.x.shape[1] >= 2
    /\ call.x.data[1] # call.x.data[2]
    /\ ret.bundle["ids"].data[1] # ret.bundle["ids"].data[2]

\* C9 as stated: enc_mesh succeeds whatever is requested, returns only "dists"
\* of shape [N, P], and prints a warning for a requested name other than "dists".
C9_Claim ==
    call.op = "enc_mesh" =>
        /\ ret.kind = "bundle"
        /\ DOMAIN ret.bundle = {"dists"}
        /\ ret.bundle["dists"].shape = <<Len(call.x.meshes), call.basis.shape[2]>>
        /\ call.feature_type \ {"dists"} # {} => ret.printed # <<>>

\* C10 as stated: decode returns basis[p] + x_deltas[n, p] for the stored basis
\* or a custom one, and a custom basis of shape [P, D] counts as [1, P, D].
C10_Claim ==
    ( /\ call.op = "decode"
      /\ \/ ndim(call.basis) = 2
         \/ ndim(call.basis) = 3 /\ call.basis.shape[1] = 1
      /\ call.basis.shape[ndim(call.basis) - 1] = Promoted(call.x).shape[2] ) =>
        /\ ret.kind = "tensor"
        /\ \A n \in 1..Promoted(call.x).shape[1], p \in 1..Promoted(call.x).shape[2] :
               ret.value.data[n][p] =
                   Add(IF ndim(call.basis) = 2 THEN call.basis.data[p]
                       ELSE call.basis.data[1][p],
                       Promoted(call.x).data[n][p])

====
